---- MODULE Spec2Model ----
(***************************************************************************)
(* ContentFlow: the three-stage newsletter pipeline (agents.py), the graph *)
(* runner and invocation facade (graph.py), the state schema (state.py),   *)
(* the thresholds (config.py) and the HTTP handlers that call the facade   *)
(* and keep workflow_results (app.py).                                     *)
(*                                                                         *)
(* A text is a sequence of tokens: variable content is one character per   *)
(* token; a fixed literal of the source is one token.  Python None is the  *)
(* empty sequence and an Optional value v is <<v>>.  A dict is a function  *)
(* whose domain is its set of keys.                                        *)
(***************************************************************************)
EXTENDS Integers, Sequences, FiniteSets, TLC

VARIABLES services, remaining, pc, request, state, checkpoints, calls,
          prompts, search_raised, exc, result, workflow_results,
          background_tasks, response

vars == <<services, remaining, pc, request, state, checkpoints, calls,
          prompts, search_raised, exc, result, workflow_results,
          background_tasks, response>>

(* ------------------------------ bounds -------------------------------- *)

\* longest generated findings text the text-generation stub returns
MaxLen == 3

\* number of generate-newsletter requests the clients send in SpecStore
MaxRequests == 2

(* ------------------------ program constants --------------------------- *)

MaxResults == 5
TopSources == 3
ResearchMaxDuration == 30
ResearchMinFindings == 3
WriterMaxDuration == 45
WriterMinWordCount == 400
NewsletterMaxDuration == 20
NewsletterMinWordCount == 150
PreviewLen == 200

(* --------------------------- Python values ---------------------------- *)

None == <<>>

Some(v) == <<v>>

EmptyDict == [k \in {} |-> TRUE]

\* d.get(key, default)
Get(d, key, default) == IF key \in DOMAIN d THEN d[key] ELSE default

\* {**base, **over}: the keys of over win
dict_merge(base, over) ==
    [k \in DOMAIN base \cup DOMAIN over |->
        IF k \in DOMAIN over THEN over[k] ELSE base[k]]

\* s[:n]
Take(s, n) == SubSeq(s, 1, IF Len(s) < n THEN Len(s) ELSE n)

Whitespace == {" ", "\n", "\t"}

RECURSIVE lstrip(_)
lstrip(s) ==
    IF s = <<>> THEN s
    ELSE IF Head(s) \in Whitespace THEN lstrip(Tail(s)) ELSE s

RECURSIVE rstrip(_)
rstrip(s) ==
    IF s = <<>> THEN s
    ELSE IF s[Len(s)] \in Whitespace THEN rstrip(SubSeq(s, 1, Len(s) - 1))
         ELSE s

\* str.strip()
strip(s) == rstrip(lstrip(s))

\* str.split(sep): n occurrences of sep give n + 1 pieces, "" gives [""]
RECURSIVE split(_, _)
split(s, sep) ==
    IF \A i \in 1..Len(s) : s[i] # sep THEN <<s>>
    ELSE LET i == CHOOSE j \in 1..Len(s) :
                      s[j] = sep /\ \A k \in 1..(j - 1) : s[k] # sep
         IN  <<SubSeq(s, 1, i - 1)>> \o split(SubSeq(s, i + 1, Len(s)), sep)

\* len(str.split()): the number of maximal runs of non-whitespace
word_count_of(s) ==
    Cardinality({i \in 1..Len(s) :
        s[i] \notin Whitespace /\ (i = 1 \/ s[i - 1] \in Whitespace)})

\* sep.join(lines)
RECURSIVE join(_, _)
join(lines, sep) ==
    IF lines = <<>> THEN <<>>
    ELSE IF Len(lines) = 1 THEN lines[1]
    ELSE lines[1] \o <<sep>> \o join(Tail(lines), sep)

\* str.replace(old, new) for one-character old and new
replace(s, old, new) == [i \in 1..Len(s) |-> IF s[i] = old THEN new ELSE s[i]]

(* --------------------------- state schema ----------------------------- *)

\* the keys AgentState declares: the channels of StateGraph(AgentState)
AgentState ==
    {"topic", "recipient_email", "research_findings", "research_sources",
     "full_article", "article_title", "newsletter_summary", "email_subject",
     "email_body", "status", "error", "messages"}

Nodes == {"research", "writer", "newsletter"}

\* a node's (or the input's) dict written to the channels: keys that are no
\* channel are not written, channels it does not name keep their value
apply_writes(old, update) ==
    [k \in AgentState |->
        IF k \in DOMAIN update THEN update[k] ELSE old[k]]

(* ------------------------------ stages -------------------------------- *)

Returned(value, sent) ==
    [raised |-> FALSE, exc |-> "", value |-> value, prompts |-> sent]

Raised(e, sent) ==
    [raised |-> TRUE, exc |-> e, value |-> EmptyDict, prompts |-> sent]

GeneralKnowledge == <<"General knowledge">>

\* the try/except around tavily.search: the result text and the sources
search_fallback_mut(topic, svc, search_ok) ==
    IF search_ok
    THEN [search_results |->
              join([i \in 1..Len(svc.results) |->
                        <<"- ">> \o svc.results[i].content], "\n"),
          sources |-> Take([i \in 1..Len(svc.results) |-> svc.results[i].url],
                           TopSources)]
    ELSE [search_results |-> <<>>, sources |-> <<>>]

search_with_fallback(topic, svc, search_ok) ==
    IF search_ok
    THEN [search_results |->
              join([i \in 1..Len(svc.results) |->
                        <<"- ">> \o svc.results[i].content], "\n"),
          sources |-> Take([i \in 1..Len(svc.results) |-> svc.results[i].url],
                           TopSources)]
    ELSE [search_results |->
              <<"Search unavailable. Using general knowledge about ">>
                  \o topic \o <<".">>,
          sources |-> <<GeneralKnowledge>>]

\* [f.strip() for f in findings.split("\n") if f.strip()]
findings_list_mut(findings) ==
    LET lines == split(findings, "\n")
        kept == SelectSeq(lines, LAMBDA f : strip(f) = <<>>)
    IN  [i \in 1..Len(kept) |-> strip(kept[i])]

findings_list_of(findings) ==
    LET lines == split(findings, "\n")
        kept == SelectSeq(lines, LAMBDA f : strip(f) # <<>>)
    IN  [i \in 1..Len(kept) |-> strip(kept[i])]

research_agent(st, svc, search_ok, gen_ok) ==
    LET topic == st["topic"]
        found == search_with_fallback(topic, svc, search_ok)
        research_prompt ==
            <<"Based on these search results about ">> \o topic \o <<":">>
                \o found.search_results
                \o <<"Extract 5-7 key findings or important points.">>
        findings == svc.findings
        duration == svc.duration
        findings_list == findings_list_of(findings)
        performance_data ==
            [duration |-> duration,
             findings_count |-> Len(findings_list),
             passed_thresholds |->
                 [time |-> duration <= ResearchMaxDuration,
                  findings |-> Len(findings_list) >= ResearchMinFindings]]
    IN  IF ~gen_ok
        THEN Raised("research: text generation failed", <<research_prompt>>)
        ELSE Returned(
                 dict_merge(st,
                     [research_findings |-> findings_list,
                      research_sources |-> found.sources,
                      status |-> "research_complete",
                      messages |-> Get(st, "messages", <<>>)
                          \o << <<"Research completed in", duration>> >>,
                      performance_metrics |->
                          dict_merge(Get(st, "performance_metrics", EmptyDict),
                                     [research |-> performance_data])]),
                 <<research_prompt>>)

\* state.get("messages", []) + [f"Article written in ..."]
writer_messages_mut(st, duration, word_count) ==
    << <<"Article written in", duration, word_count>> >>

writer_messages(st, duration, word_count) ==
    Get(st, "messages", <<>>)
        \o << <<"Article written in", duration, word_count>> >>

writer_agent(st, svc, article_ok, title_ok) ==
    LET topic == st["topic"]
        research == join(st["research_findings"], "\n")
        writer_prompt ==
            <<"Write a comprehensive article about ">> \o topic
                \o <<"Use these research findings:">> \o research
        article == svc.article
        title_prompt ==
            <<"Create a catchy title for this article about ">> \o topic
        title == svc.title
        duration == svc.duration
        word_count == word_count_of(article)
        performance_data ==
            [duration |-> duration,
             word_count |-> word_count,
             passed_thresholds |->
                 [time |-> duration <= WriterMaxDuration,
                  word_count |-> word_count >= WriterMinWordCount]]
    IN  IF ~article_ok
        THEN Raised("writer: article generation failed", <<writer_prompt>>)
        ELSE IF ~title_ok
        THEN Raised("writer: title generation failed",
                    <<writer_prompt, title_prompt>>)
        ELSE Returned(
                 dict_merge(st,
                     [full_article |-> article,
                      article_title |-> title,
                      status |-> "writing_complete",
                      messages |-> writer_messages(st, duration, word_count),
                      performance_metrics |->
                          dict_merge(Get(st, "performance_metrics", EmptyDict),
                                     [writer |-> performance_data])]),
                 <<writer_prompt, title_prompt>>)

\* f"Newsletter: {title}"
email_subject_of(title) == <<"Newsletter: ">> \o title

\* the email body template around the title and the summary
email_body_of(title, summary) ==
    <<"<h2>">> \o title \o <<"</h2>">> \o summary
        \o <<"<p><a href=\"#\">Read Full Article</a></p>", "<hr>",
             "<p>Generated on ", "%B %d, %Y", "</p>">>

newsletter_agent(st, svc, summary_ok) ==
    LET article == st["full_article"]
        title == st["article_title"]
        summary_prompt ==
            <<"Create a newsletter summary of this article:", "Title: ">>
                \o title \o <<"Article: ">> \o article
        summary == svc.summary
        subject == email_subject_of(title)
        email_body == email_body_of(title, summary)
        duration == svc.duration
        summary_word_count == word_count_of(summary)
        performance_data ==
            [duration |-> duration,
             word_count |-> summary_word_count,
             passed_thresholds |->
                 [time |-> duration <= NewsletterMaxDuration,
                  word_count |-> summary_word_count >= NewsletterMinWordCount]]
    IN  IF ~summary_ok
        THEN Raised("newsletter: text generation failed", <<summary_prompt>>)
        ELSE Returned(
                 dict_merge(st,
                     [newsletter_summary |-> summary,
                      email_subject |-> subject,
                      email_body |-> email_body,
                      status |-> "newsletter_complete",
                      messages |-> Get(st, "messages", <<>>)
                          \o << <<"Newsletter created in", duration>> >>,
                      performance_metrics |->
                          dict_merge(Get(st, "performance_metrics", EmptyDict),
                                     [newsletter |-> performance_data])]),
                 <<summary_prompt>>)

(* ------------------------- graph and facade -------------------------- *)

\* workflow.set_entry_point("research")
entry_point == "research"

\* the edges of create_workflow; "END" is langgraph's END
next_node_mut(node) ==
    CASE node = "research" -> "newsletter"
      [] node = "writer" -> "newsletter"
      [] node = "newsletter" -> "END"

next_node(node) ==
    CASE node = "research" -> "writer"
      [] node = "writer" -> "newsletter"
      [] node = "newsletter" -> "END"

\* f"newsletter_{topic.replace(' ', '_')}_{email}"
thread_id_of(topic, email) ==
    <<"newsletter_">> \o replace(topic, " ", "_") \o <<"_">> \o email

initial_state(topic, email) ==
    [topic |-> topic,
     recipient_email |-> email,
     research_findings |-> <<>>,
     research_sources |-> <<>>,
     full_article |-> <<>>,
     article_title |-> <<>>,
     newsletter_summary |-> <<>>,
     email_subject |-> <<>>,
     email_body |-> <<>>,
     status |-> "starting",
     error |-> None,
     messages |-> << <<"Workflow started">> >>,
     performance_metrics |-> EmptyDict]

\* the channel values after the input is written: what the first node reads
input_state(topic, email) ==
    apply_writes(initial_state(topic, email), initial_state(topic, email))

\* MemorySaver: the snapshots kept under a thread id, latest last
put_checkpoint(saver, thread_id, snapshot) ==
    dict_merge(saver,
        (thread_id :> (Get(saver, thread_id, <<>>) \o <<snapshot>>)))

\* the return of the try branch of run_newsletter_workflow
success_envelope_mut(final_state, thread_id) ==
    [success |-> TRUE, data |-> None, thread_id |-> thread_id]

success_envelope(final_state, thread_id) ==
    [success |-> TRUE, data |-> Some(final_state), thread_id |-> thread_id]

\* the return of the except branch; e is str(e)
failure_envelope_mut(e) ==
    [success |-> FALSE, error |-> None, data |-> None]

failure_envelope(e) ==
    [success |-> FALSE, error |-> Some(e), data |-> None]

(* ---------------------- external service stubs ----------------------- *)

Alphabet == {"a", " ", "\n"}

Texts(n) == UNION {[1..k -> Alphabet] : k \in 0..n}

Digits == <<"1", "2", "3", "4", "5">>

\* a search response of n results
SearchResults(n) ==
    [i \in 1..n |-> [content |-> <<"c">>, url |-> <<"u", Digits[i]>>]]

\* what the services answer when they answer: any combination
Stubs ==
    [results : {SearchResults(n) : n \in {0, MaxResults}},
     findings : Texts(MaxLen),
     article : {<<>>, <<"a", " ", "a">>},
     title : {<<>>, <<"T">>},
     summary : {<<>>, <<"s">>},
     duration : {10, 50}]

\* the example scenario: two search results, fixed generated strings
ExampleStub ==
    [results |-> SearchResults(2),
     findings |-> <<"a", "\n", "a">>,
     article |-> <<"a", " ", "a">>,
     title |-> <<"T">>,
     summary |-> <<"s">>,
     duration |-> 10]

Topics ==
    {<<>>, <<" ">>, <<"a">>, <<"a", " ", "b">>, <<"a", "_", "b">>}

Emails == {<<"e", "@", "x">>, <<"b", "_", "e", "@", "x">>}

ThreadIds == {thread_id_of(t, e) : t \in Topics, e \in Emails}

(* ------------------------------ actions ------------------------------- *)

NoInvocation ==
    /\ state' = EmptyDict
    /\ checkpoints' = EmptyDict
    /\ calls' = <<>>
    /\ prompts' = <<>>
    /\ search_raised' = FALSE
    /\ exc' = ""
    /\ result' = EmptyDict

\* POST /generate-newsletter with a blank topic: the HTTPException raised by
\* the validation is caught by the handler's own except Exception
GenerateNewsletterReject ==
    \E topic \in Topics, email \in Emails :
        /\ pc = "idle" /\ remaining > 0 /\ background_tasks = <<>>
        /\ strip(topic) = <<>>
        /\ request' = [topic |-> topic, recipient_email |-> email]
        /\ remaining' = remaining - 1
        /\ response' =
               [to |-> "generate-newsletter", status_code |-> 200,
                body |-> [success |-> FALSE,
                          message |-> "An error occurred",
                          data |-> None, thread_id |-> None,
                          error |-> Some("400: Topic cannot be empty")]]
        /\ NoInvocation
        /\ UNCHANGED <<services, pc, workflow_results, background_tasks>>

\* POST /generate-newsletter with a topic: run_newsletter_workflow builds the
\* graph, the initial state and the config, and invoke writes the input
GenerateNewsletterStart ==
    \E topic \in Topics, email \in Emails :
        /\ pc = "idle" /\ remaining > 0 /\ background_tasks = <<>>
        /\ strip(topic) # <<>>
        /\ request' = [topic |-> topic, recipient_email |-> email]
        /\ remaining' = remaining - 1
        /\ state' = input_state(topic, email)
        /\ checkpoints' =
               put_checkpoint(EmptyDict, thread_id_of(topic, email), state')
        /\ calls' = <<>>
        /\ prompts' = <<>>
        /\ search_raised' = FALSE
        /\ exc' = ""
        /\ result' = EmptyDict
        /\ response' = EmptyDict
        /\ pc' = entry_point
        /\ UNCHANGED <<services, workflow_results, background_tasks>>

\* one node of the graph has run: its writes and the checkpoint, or its raise
NodeRan(node, out) ==
    /\ calls' = Append(calls, node)
    /\ prompts' = prompts \o out.prompts
    /\ IF out.raised
       THEN /\ pc' = "raised"
            /\ exc' = out.exc
            /\ UNCHANGED <<state, checkpoints>>
       ELSE /\ pc' = next_node(node)
            /\ state' = apply_writes(state, out.value)
            /\ checkpoints' =
                   put_checkpoint(checkpoints,
                       thread_id_of(request.topic, request.recipient_email),
                       state')
            /\ UNCHANGED exc
    /\ UNCHANGED <<services, remaining, request, result, workflow_results,
                   background_tasks, response>>

ResearchStep ==
    \E search_ok \in BOOLEAN, gen_ok \in BOOLEAN :
        /\ pc = "research"
        /\ search_raised' = ~search_ok
        /\ NodeRan("research", research_agent(state, services, search_ok, gen_ok))

WriterStep ==
    \E article_ok \in BOOLEAN, title_ok \in BOOLEAN :
        /\ pc = "writer"
        /\ (~article_ok => title_ok)
        /\ NodeRan("writer", writer_agent(state, services, article_ok, title_ok))
        /\ UNCHANGED search_raised

NewsletterStep ==
    \E summary_ok \in BOOLEAN :
        /\ pc = "newsletter"
        /\ NodeRan("newsletter", newsletter_agent(state, services, summary_ok))
        /\ UNCHANGED search_raised

\* run_newsletter_workflow returns: invoke returned the final state or raised
\* into the except branch; the graph and its MemorySaver were locals
WorkflowReturn ==
    /\ pc \in {"END", "raised"}
    /\ result' =
           IF pc = "END"
           THEN success_envelope(state,
                    thread_id_of(request.topic, request.recipient_email))
           ELSE failure_envelope(exc)
    /\ checkpoints' = EmptyDict
    /\ pc' = "returned"
    /\ UNCHANGED <<services, remaining, request, state, calls, prompts,
                   search_raised, exc, workflow_results, background_tasks,
                   response>>

\* generate_newsletter after run_newsletter_workflow returned
GenerateNewsletterRespond ==
    /\ pc = "returned"
    /\ IF result["success"]
       THEN LET thread_id == result["thread_id"]
                data == result["data"][1]
            IN  /\ workflow_results' =
                       dict_merge(workflow_results, (thread_id :> data))
                /\ background_tasks' =
                       Append(background_tasks,
                           [func |-> "send_newsletter_email",
                            email |-> request.recipient_email,
                            subject |-> data["email_subject"],
                            body |-> data["email_body"]])
                /\ response' =
                       [to |-> "generate-newsletter", status_code |-> 200,
                        body |->
                            [success |-> TRUE,
                             message |-> "Newsletter generated successfully",
                             data |-> Some(
                                 [article_title |-> data["article_title"],
                                  article_preview |->
                                      Take(data["full_article"], PreviewLen)
                                          \o <<"...">>,
                                  email_subject |-> data["email_subject"],
                                  performance_metrics |->
                                      Get(data, "performance_metrics",
                                          EmptyDict)]),
                             thread_id |-> Some(thread_id),
                             error |-> None]]
       ELSE /\ response' =
                   [to |-> "generate-newsletter", status_code |-> 200,
                    body |-> [success |-> FALSE,
                              message |-> "Failed to generate newsletter",
                              data |-> None, thread_id |-> None,
                              error |-> result["error"]]]
            /\ UNCHANGED <<workflow_results, background_tasks>>
    /\ pc' = "idle"
    /\ NoInvocation
    /\ UNCHANGED <<services, remaining, request>>

\* the background task of the response runs: it only prints
SendNewsletterEmail ==
    /\ pc = "idle"
    /\ background_tasks # <<>>
    /\ background_tasks' = Tail(background_tasks)
    /\ UNCHANGED <<services, remaining, pc, request, state, checkpoints,
                   calls, prompts, search_raised, exc, result,
                   workflow_results, response>>

\* GET /workflow/{thread_id}
GetWorkflowResult ==
    \E thread_id \in ThreadIds :
        /\ pc = "idle"
        /\ response' =
               IF thread_id \notin DOMAIN workflow_results
               THEN [to |-> "workflow", status_code |-> 404,
                     body |-> [detail |-> "Workflow result not found"]]
               ELSE [to |-> "workflow", status_code |-> 200,
                     body |-> [thread_id |-> thread_id,
                               data |-> workflow_results[thread_id]]]
        /\ UNCHANGED <<services, remaining, pc, request, state, checkpoints,
                       calls, prompts, search_raised, exc, result,
                       workflow_results, background_tasks>>

Idle ==
    /\ pc = "idle"
    /\ request = EmptyDict
    /\ state = EmptyDict
    /\ checkpoints = EmptyDict
    /\ calls = <<>>
    /\ prompts = <<>>
    /\ search_raised = FALSE
    /\ exc = ""
    /\ result = EmptyDict
    /\ workflow_results = EmptyDict
    /\ background_tasks = <<>>
    /\ response = EmptyDict

\* one request, any answers of the services
Init ==
    /\ services \in Stubs
    /\ remaining = 1
    /\ Idle

\* several requests against the services of the example scenario
InitStore ==
    /\ services = ExampleStub
    /\ remaining = MaxRequests
    /\ Idle

Next ==
    \/ GenerateNewsletterReject
    \/ GenerateNewsletterStart
    \/ ResearchStep
    \/ WriterStep
    \/ NewsletterStep
    \/ WorkflowReturn
    \/ GenerateNewsletterRespond
    \/ SendNewsletterEmail
    \/ GetWorkflowResult

Spec == Init /\ [][Next]_vars

SpecStore == InitStore /\ [][Next]_vars

(* ----------------------------- properties ---------------------------- *)

\* an invocation of run_newsletter_workflow exists: from its start until the
\* handler has answered
InRun == DOMAIN state # {}

\* the nodes that returned in this invocation
Completed == Len(calls) - (IF exc # "" THEN 1 ELSE 0)

Rank(status) ==
    CASE status = "starting" -> 0
      [] status = "research_complete" -> 1
      [] status = "writing_complete" -> 2
      [] status = "newsletter_complete" -> 3

IsPrefix(a, b) == Len(a) <= Len(b) /\ SubSeq(b, 1, Len(a)) = a

NonBlank(text) == \E i \in 1..Len(text) : text[i] \notin Whitespace

RunThreadId == thread_id_of(request.topic, request.recipient_email)

\* C1: within one run the status stays or moves exactly one step along
\* starting -> research_complete -> writing_complete -> newsletter_complete,
\* it moves only when the next stage runs, and the stages are invoked in the
\* order research, writer, newsletter.
C1_StatusStepsInOrder ==
    [][(InRun /\ DOMAIN state' # {}) =>
        /\ \/ state'.status = state.status
           \/ Rank(state'.status) = Rank(state.status) + 1
        /\ IsPrefix(calls', <<"research", "writer", "newsletter">>)
        /\ Rank(state'.status) # Rank(state.status) =>
               /\ Len(calls') = Len(calls) + 1
               /\ Rank(state'.status) = Len(calls')]_vars

C1_Witness ==
    /\ pc = "END"
    /\ state.status = "newsletter_complete"
    /\ calls = <<"research", "writer", "newsletter">>

WriterRaised == exc # "" /\ calls # <<>> /\ calls[Len(calls)] = "writer"

\* C2: when a text-generation call of the Writer stage raises, the Newsletter
\* stage is never invoked and run_newsletter_workflow returns success = false,
\* a non-null error and data = None.
C2_WriterFailurePropagates ==
    WriterRaised =>
        /\ pc \in {"raised", "returned"}
        /\ \A i \in 1..Len(calls) : calls[i] # "newsletter"
        /\ state.status = "research_complete"
        /\ pc = "returned" =>
               /\ result.success = FALSE
               /\ "error" \in DOMAIN result
               /\ result.error # None
               /\ result.data = None

C2_Witness == pc = "returned" /\ WriterRaised

\* C3 as stated: every returned envelope carries the four fields success,
\* data, thread_id and error.
C3_FourFieldEnvelope ==
    pc = "returned" =>
        /\ DOMAIN result = {"success", "data", "thread_id", "error"}
        /\ result.success => result.data = Some(state) /\ result.error = None
        /\ ~result.success => result.data = None /\ result.error # None

\* C3 amended: every stage outcome is turned into a returned envelope; on
\* success it has exactly success = true, data = the final state and
\* thread_id (no error key); on failure exactly success = false, error = the
\* description and data = None (no thread_id key).
C3_EnvelopeShape ==
    /\ pc = "raised" => exc # ""
    /\ pc = "returned" =>
           IF exc = ""
           THEN /\ result = [success |-> TRUE, data |-> Some(state),
                             thread_id |-> RunThreadId]
                /\ state.status = "newsletter_complete"
           ELSE result = [success |-> FALSE, error |-> Some(exc),
                          data |-> None]

C3_Witness == pc = "returned" /\ ~result.success /\ "thread_id" \notin DOMAIN result

ResearchJustRan == calls = <<"research">>

\* C4 as stated: when the search raises, no exception escapes research_agent
\* and it returns research_findings non-empty, status research_complete,
\* sources ["General knowledge"] and no error.
C4_SearchFailureNeverEscapes ==
    (search_raised /\ ResearchJustRan) =>
        /\ exc = ""
        /\ state.research_sources = <<GeneralKnowledge>>
        /\ state.error = None
        /\ state.status = "research_complete"
        /\ state.research_findings # <<>>

\* C4 amended: when the search raises, research_agent falls back to the
\* synthetic search text with sources ["General knowledge"] and does not set
\* error; if the text generation then returns, the stage returns status
\* research_complete with research_findings non-empty exactly when the
\* generated text has a non-whitespace character; if the text generation
\* raises, that exception escapes the stage and the state is not advanced.
C4_SearchFailureDegrades ==
    (search_raised /\ ResearchJustRan) =>
        /\ prompts[1] =
               <<"Based on these search results about ">> \o request.topic
                   \o <<":",
                        "Search unavailable. Using general knowledge about ">>
                   \o request.topic
                   \o <<".", "Extract 5-7 key findings or important points.">>
        /\ state.error = None
        /\ IF exc = ""
           THEN /\ pc = "writer"
                /\ state.status = "research_complete"
                /\ state.research_sources = <<GeneralKnowledge>>
                /\ state.research_findings # <<>> <=>
                       NonBlank(services.findings)
           ELSE /\ pc \in {"raised", "returned"}
                /\ exc = "research: text generation failed"
                /\ state.status = "starting"

C4_Witness ==
    /\ search_raised /\ ResearchJustRan /\ exc = ""
    /\ state.research_findings # <<>>

OutputFields ==
    {"research_findings", "research_sources", "full_article", "article_title",
     "newsletter_summary", "email_subject", "email_body"}

AllServicesReturned == pc = "returned" /\ result.success /\ ~search_raised

\* C5 as stated: whenever every service returned without raising, all seven
\* output fields of the final state are non-empty.
C5_AllOutputsNonEmpty ==
    AllServicesReturned =>
        /\ result.data[1].status = "newsletter_complete"
        /\ \A f \in OutputFields : result.data[1][f] # <<>>

ServicesReturnedContent ==
    /\ Len(services.results) >= 1
    /\ NonBlank(services.findings)
    /\ services.article # <<>>
    /\ services.title # <<>>
    /\ services.summary # <<>>

\* C5 amended: whenever every service returned without raising, the final
\* state has status newsletter_complete; all seven output fields are
\* non-empty provided the search returned at least one result, the findings
\* text has a non-blank line and the article, title and summary texts are
\* non-empty.
C5_OutputsNonEmptyGivenContent ==
    AllServicesReturned =>
        /\ result.data[1].status = "newsletter_complete"
        /\ ServicesReturnedContent =>
               \A f \in OutputFields : result.data[1][f] # <<>>

C5_Witness == AllServicesReturned /\ ServicesReturnedContent

\* C6 as stated: the length of messages equals the number of stages that
\* completed (0 initially).
C6_LengthIsStagesCompleted == InRun => Len(state.messages) = Completed

\* C6 amended: messages starts as the one entry "Workflow started"; each
\* completed stage appends exactly one entry and keeps the earlier entries as
\* a prefix, so its length is always 1 + the number of completed stages.
C6_AppendOnlyMessages ==
    /\ [](InRun => Len(state.messages) = 1 + Completed)
    /\ [][(InRun /\ DOMAIN state' # {}) =>
            /\ IsPrefix(state.messages, state'.messages)
            /\ Len(state'.messages) =
                   Len(state.messages)
                       + (IF state'.status # state.status THEN 1 ELSE 0)]_vars

C6_Witness == pc = "END" /\ Len(state.messages) = 4 /\ Completed = 3

\* C7: after stage N completed the state holds a performance_metrics entry
\* for each of the stages 1..N.
C7_MetricsAccumulate ==
    (InRun /\ Completed >= 1) =>
        /\ "performance_metrics" \in DOMAIN state
        /\ \A i \in 1..Completed :
               calls[i] \in DOMAIN state["performance_metrics"]

ValidRequest == DOMAIN request # {} /\ strip(request.topic) # <<>>

\* C8: the run record exists under the run identifier from the start of the
\* workflow, holds one snapshot per stage boundary, and is still retrievable
\* under that identifier once the request has been answered.
C8_RunRecordRetained ==
    ValidRequest =>
        /\ pc \in {"research", "writer", "newsletter", "END", "raised"} =>
               /\ RunThreadId \in DOMAIN checkpoints
               /\ Len(checkpoints[RunThreadId]) = 1 + Completed
               /\ checkpoints[RunThreadId][1 + Completed] = state
        /\ pc = "idle" =>
               \/ RunThreadId \in DOMAIN checkpoints
               \/ RunThreadId \in DOMAIN workflow_results

\* C9: a stored record is overwritten only by an invocation with the
\* identical topic and email.
C9_OverwriteOnlyBySameRequest ==
    (/\ pc = "returned"
     /\ result.success
     /\ result.thread_id \in DOMAIN workflow_results) =>
        /\ workflow_results[result.thread_id].topic = request.topic
        /\ workflow_results[result.thread_id].recipient_email =
               request.recipient_email

\* C10: a request with a blank topic is answered with HTTP 400 "Topic cannot
\* be empty"; the workflow is not run, nothing is stored and no email task is
\* scheduled.
C10_BlankTopicIs400 ==
    (/\ pc = "idle"
     /\ DOMAIN request # {}
     /\ strip(request.topic) = <<>>
     /\ DOMAIN response # {}
     /\ response.to = "generate-newsletter") =>
        /\ calls = <<>>
        /\ background_tasks = <<>>
        /\ RunThreadId \notin DOMAIN workflow_results
        /\ response.status_code = 400
        /\ response.body = [detail |-> "Topic cannot be empty"]

====
